---- MODULE Spec2Model ----
(***************************************************************************)
(* Model of streamlit_app.py: the Southeast congressional-district         *)
(* dashboard.  The script is re-executed top to bottom on every user       *)
(* interaction; st.session_state carries the filter state between passes.  *)
(* Percentages are IEEE-754 binary64 values, modelled bit for bit.         *)
(***************************************************************************)
EXTENDS Integers, Sequences, FiniteSets, TLC

VARIABLES csv, cache, ss, out, op

vars == <<csv, cache, ss, out, op>>

----------------------------------------------------------------------------
(* binary64 arithmetic.  A finite value is sgn * m * 2^e, where m is a     *)
(* natural of exactly Prec bits (or zero), held as a string of base-2^15   *)
(* limbs, most significant first, without leading zero limbs.              *)

Prec == 53
LimbBits == 15
Base == 2 ^ LimbBits

Zeros(n) == [i \in 1..n |-> 0]

Norm(x) ==
  LET nz == {i \in 1..Len(x) : x[i] # 0}
  IN  IF nz = {} THEN <<>>
      ELSE SubSeq(x, CHOOSE i \in nz : \A j \in nz : i <= j, Len(x))

PadLeft(x, n) == Zeros(n - Len(x)) \o x

MaxLen(x, y) == IF Len(x) > Len(y) THEN Len(x) ELSE Len(y)

\* a >= b for limb strings of one length: the first limb that differs is larger
GeqPadded(a, b) ==
  \A i \in 1..Len(a) : a[i] < b[i] => \E j \in 1..(i - 1) : a[j] > b[j]

\* x >= y
BGeq(x, y) == GeqPadded(PadLeft(x, MaxLen(x, y)), PadLeft(y, MaxLen(x, y)))

RECURSIVE AddC(_, _, _, _)
AddC(a, b, i, c) ==
  IF i = 0 THEN (IF c = 0 THEN <<>> ELSE <<c>>)
  ELSE Append(AddC(a, b, i - 1, (a[i] + b[i] + c) \div Base),
              (a[i] + b[i] + c) % Base)

BAdd(x, y) ==
  AddC(PadLeft(x, MaxLen(x, y)), PadLeft(y, MaxLen(x, y)), MaxLen(x, y), 0)

RECURSIVE SubC(_, _, _, _)
SubC(a, b, i, c) ==
  IF i = 0 THEN <<>>
  ELSE Append(SubC(a, b, i - 1, IF a[i] - b[i] - c < 0 THEN 1 ELSE 0),
              (a[i] - b[i] - c + Base) % Base)

\* x - y, for x >= y
BSub(x, y) ==
  Norm(SubC(PadLeft(x, MaxLen(x, y)), PadLeft(y, MaxLen(x, y)), MaxLen(x, y), 0))

RECURSIVE MulC(_, _, _, _)
MulC(a, k, i, c) ==
  IF i = 0 THEN (IF c = 0 THEN <<>> ELSE <<c>>)
  ELSE Append(MulC(a, k, i - 1, (a[i] * k + c) \div Base), (a[i] * k + c) % Base)

\* x * k, for 0 < k <= Base
BMulSmall(x, k) == MulC(x, k, Len(x), 0)

RECURSIVE DivC(_, _, _, _)
DivC(a, k, i, r) ==
  IF i > Len(a) THEN <<>>
  ELSE <<(r * Base + a[i]) \div k>> \o DivC(a, k, i + 1, (r * Base + a[i]) % k)

\* x \div k, for 0 < k <= Base
BDivSmall(x, k) == Norm(DivC(x, k, 1, 0))

BitLen(x) ==
  IF x = <<>> THEN 0
  ELSE (Len(x) - 1) * LimbBits
         + CHOOSE n \in 1..LimbBits : 2 ^ (n - 1) <= x[1] /\ x[1] < 2 ^ n

ShiftLeft(x, s) ==
  IF x = <<>> THEN <<>>
  ELSE BMulSmall(x, 2 ^ (s % LimbBits)) \o Zeros(s \div LimbBits)

ShiftRight(x, s) ==
  IF s \div LimbBits >= Len(x) THEN <<>>
  ELSE BDivSmall(SubSeq(x, 1, Len(x) - s \div LimbBits), 2 ^ (s % LimbBits))

IsOdd(x) == x # <<>> /\ x[Len(x)] % 2 = 1

NaN == [cls |-> "nan", sgn |-> 1, m |-> <<>>, e |-> 0]
Inf(s) == [cls |-> "inf", sgn |-> s, m |-> <<>>, e |-> 0]
Fin(s, m, e) == [cls |-> "fin", sgn |-> s, m |-> m, e |-> e]
Zero == Fin(1, <<>>, 0)

\* the significand m * 2^e, renormalised when rounding up carried out of it
Carried(s, m, e) ==
  IF BitLen(m) > Prec THEN Fin(s, ShiftRight(m, 1), e + 1) ELSE Fin(s, m, e)

\* ties-to-even: r2 is twice the part cut off, half is 2^k, q the part kept
RoundsUp(r2, half, q) == IF r2 = half THEN IsOdd(q) ELSE BGeq(r2, half)

\* x = q * 2^k + (part cut off), rounded to q or q + 1
CutOff(s, x, e, k, q) ==
  Carried(s,
          IF RoundsUp(BMulSmall(BSub(x, ShiftLeft(q, k)), 2), ShiftLeft(<<1>>, k), q)
          THEN BAdd(q, <<1>>) ELSE q,
          e + k)

RoundBits(s, x, e, n) ==
  IF n = 0 THEN Zero
  ELSE IF n <= Prec THEN Fin(s, ShiftLeft(x, Prec - n), e - (Prec - n))
  ELSE CutOff(s, x, e, n - Prec, ShiftRight(x, n - Prec))

RoundNorm(s, x, e) == RoundBits(s, x, e, BitLen(x))

\* round-to-nearest, ties-to-even, of the natural x * 2^e to Prec bits
RoundTo(s, x, e) == RoundNorm(s, Norm(x), e)

\* the limbs of r/d (r < d < Base) after the point, and the last remainder
RECURSIVE DivLimbs(_, _, _)
DivLimbs(r, d, k) ==
  IF k = 0 THEN <<r>>
  ELSE <<(r * Base) \div d>> \o DivLimbs((r * Base) % d, d, k - 1)

FracLimbs == 5

\* the quotient limbs, and a last limb that is 1 when the division left a
\* remainder
Quotient(n, d, dv) ==
  <<n \div d>> \o SubSeq(dv, 1, FracLimbs)
    \o <<IF dv[FracLimbs + 1] # 0 THEN 1 ELSE 0>>

\* float64(n) / float64(d) for naturals n < Base * d, d < Base (numpy true
\* division of two integer columns)
FDiv(n, d) ==
  IF d = 0 THEN (IF n = 0 THEN NaN ELSE Inf(1))
  ELSE IF n = 0 THEN Zero
  ELSE RoundTo(1, Quotient(n, d, DivLimbs(n % d, d, FracLimbs)),
               0 - (FracLimbs + 1) * LimbBits)

\* x * k for a natural 0 < k <= Base
FMulSmall(x, k) ==
  IF x.cls # "fin" THEN x ELSE RoundTo(x.sgn, BMulSmall(x.m, k), x.e)

MinE(x, y) == IF x.e < y.e THEN x.e ELSE y.e

\* a * 2^e with sign xs plus b * 2^e with sign ys
AddAligned(xs, ys, a, b, e) ==
  RoundTo(IF xs = ys \/ BGeq(a, b) THEN xs ELSE ys,
          IF xs = ys THEN BAdd(a, b)
          ELSE IF BGeq(a, b) THEN BSub(a, b) ELSE BSub(b, a),
          e)

\* x + y on finite values, y taken with the sign ysgn
FinAdd(x, ysgn, y) ==
  AddAligned(x.sgn, ysgn, ShiftLeft(x.m, x.e - MinE(x, y)),
             ShiftLeft(y.m, y.e - MinE(x, y)), MinE(x, y))

FAdd(x, y) ==
  IF x.cls = "nan" \/ y.cls = "nan" THEN NaN
  ELSE IF x.cls = "inf" /\ y.cls = "inf" THEN (IF x.sgn = y.sgn THEN x ELSE NaN)
  ELSE IF x.cls = "inf" THEN x
  ELSE IF y.cls = "inf" THEN y
  ELSE FinAdd(x, y.sgn, y)

FNeg(x) == IF x.cls = "nan" THEN x ELSE [x EXCEPT !.sgn = 0 - x.sgn]

FSub(x, y) == FAdd(x, FNeg(y))

FromNat(n) == RoundTo(1, <<n>>, 0)

\* |x| >= |y| on finite values
MagGeq(x, y) ==
  BGeq(ShiftLeft(x.m, x.e - MinE(x, y)), ShiftLeft(y.m, y.e - MinE(x, y)))

\* x <= y; false when either is NaN
FLeq(x, y) ==
  /\ x.cls # "nan" /\ y.cls # "nan"
  /\ \/ x.cls = "inf" /\ x.sgn = -1
     \/ y.cls = "inf" /\ y.sgn = 1
     \/ /\ x.cls = "fin" /\ y.cls = "fin"
        /\ \/ x.m = <<>> /\ y.m = <<>>
           \/ x.m = <<>> /\ y.m # <<>> /\ y.sgn = 1
           \/ x.m # <<>> /\ y.m = <<>> /\ x.sgn = -1
           \/ x.m # <<>> /\ y.m # <<>> /\ x.sgn = -1 /\ y.sgn = 1
           \/ x.m # <<>> /\ y.m # <<>> /\ x.sgn = 1 /\ y.sgn = 1 /\ MagGeq(y, x)
           \/ x.m # <<>> /\ y.m # <<>> /\ x.sgn = -1 /\ y.sgn = -1 /\ MagGeq(x, y)

\* x < y; false when either is NaN
FLt(x, y) == x.cls # "nan" /\ y.cls # "nan" /\ ~FLeq(y, x)

----------------------------------------------------------------------------
(* load_data: the derived columns.                                         *)

None == "None"

\* (n / d) * 100 on two integer columns
Pct(n, d) == FMulSmall(FDiv(n, d), 100)

minority_cols(r) ==
  [Hispanic |-> r.T_20_CENS_Hispanic, Black |-> r.T_20_CENS_Black,
   Asian |-> r.T_20_CENS_Asian, Native |-> r.T_20_CENS_Native,
   Pacific |-> r.T_20_CENS_Pacific]

TotalMinorityPopulation(r) ==
  r.T_20_CENS_Hispanic + r.T_20_CENS_Black + r.T_20_CENS_Asian
    + r.T_20_CENS_Native + r.T_20_CENS_Pacific

Derived(r, dem_pct, rep_pct) ==
  [State |-> r.State, CD_Num |-> r.CD_Num,
   E_16_20_COMP_Dem |-> r.E_16_20_COMP_Dem,
   E_16_20_COMP_Rep |-> r.E_16_20_COMP_Rep,
   E_16_20_COMP_Total |-> r.E_16_20_COMP_Total,
   T_20_CENS_Total |-> r.T_20_CENS_Total,
   Democratic_pct |-> dem_pct,
   Republican_pct |-> rep_pct,
   Partisan_Margin |-> FSub(rep_pct, dem_pct),
   Total_Minority_Population |-> TotalMinorityPopulation(r),
   Minority_Percentage |-> Pct(TotalMinorityPopulation(r), r.T_20_CENS_Total),
   Hispanic_pct |-> Pct(minority_cols(r).Hispanic, r.T_20_CENS_Total),
   Black_pct |-> Pct(minority_cols(r).Black, r.T_20_CENS_Total),
   Asian_pct |-> Pct(minority_cols(r).Asian, r.T_20_CENS_Total),
   Native_pct |-> Pct(minority_cols(r).Native, r.T_20_CENS_Total),
   Pacific_pct |-> Pct(minority_cols(r).Pacific, r.T_20_CENS_Total)]

\* a Republican share taken over the Democratic votes
Derive_RepOverDem(r) ==
  Derived(r, Pct(r.E_16_20_COMP_Dem, r.E_16_20_COMP_Total),
          Pct(r.E_16_20_COMP_Rep, r.E_16_20_COMP_Dem))

Derive(r) ==
  Derived(r, Pct(r.E_16_20_COMP_Dem, r.E_16_20_COMP_Total),
          Pct(r.E_16_20_COMP_Rep, r.E_16_20_COMP_Total))

load_data(rows) == [i \in 1..Len(rows) |-> Derive(rows[i])]

----------------------------------------------------------------------------
(* Static configuration.                                                   *)

state_groups ==
  [g \in {"All States", "Independent Commission", "Republican Legislatures",
          "Competitive States", "Conservative States"} |->
     CASE g = "All States" -> None
       [] g = "Independent Commission" -> {"Louisiana", "Virginia"}
       [] g = "Republican Legislatures" ->
            {"Arkansas", "Mississippi", "Alabama", "Georgia", "Florida",
             "South Carolina", "North Carolina", "Tennessee", "Kentucky",
             "West Virginia", "Virginia"}
       [] g = "Competitive States" -> {"Georgia", "North Carolina", "Virginia"}
       [] g = "Conservative States" ->
            {"Arkansas", "Louisiana", "Mississippi", "Alabama", "Tennessee",
             "West Virginia", "Kentucky", "South Carolina", "Florida"}]

GroupOptions ==
  <<"All States", "Independent Commission", "Republican Legislatures",
    "Competitive States", "Conservative States">>

\* (the source writes the two middle labels with an en dash)
BandOptions == <<"All", "Below 35%", "35-50%", "50-75%", "75%+">>

DemoOptions ==
  <<"Total Minority", "Hispanic", "Black", "Asian", "Native", "Pacific">>

ranges ==
  [b \in {"Below 35%", "35-50%", "50-75%", "75%+"} |->
     CASE b = "Below 35%" -> <<0, 35>>
       [] b = "35-50%" -> <<35, 50>>
       [] b = "50-75%" -> <<50, 75>>
       [] b = "75%+" -> <<75, 100>>]

default_state_group == "All States"
default_states(df) == {df[i].State : i \in 1..Len(df)}
default_group == "All"
default_demo == "Total Minority"

Range(s) == {s[i] : i \in 1..Len(s)}

----------------------------------------------------------------------------
(* One pass of the script over st.session_state.                           *)

Has(s, k) == k \in DOMAIN s

Put(s, k, v) == [x \in DOMAIN s \cup {k} |-> IF x = k THEN v ELSE s[x]]

\* a reset that forgets the band
ResetFilters_KeepsBand(s, df) ==
  Put(Put(Put(Put(s, "state_group", default_state_group),
              "selected_states", default_states(df)),
          "selected_demo", default_demo),
      "last_state_group", default_state_group)

\* the Reset Filters branch
ResetFilters(s, df) ==
  Put(Put(Put(Put(Put(s, "state_group", default_state_group),
                  "selected_states", default_states(df)),
              "selected_group", default_group),
          "selected_demo", default_demo),
      "last_state_group", default_state_group)

\* st.selectbox(..., key=k): an absent key is initialised to the first option
selectbox(s, k, options) == IF Has(s, k) THEN s ELSE Put(s, k, options[1])

\* a sync that reseeds on every pass
SyncStates_EveryPass(s, df) ==
  Put(Put(s, "selected_states",
          IF s["state_group"] = "All States" THEN default_states(df)
          ELSE state_groups[s["state_group"]]),
      "last_state_group", s["state_group"])

\* the sync of selected_states with a changed state_group
SyncStates(s, df) ==
  LET s1 == IF ~Has(s, "last_state_group")
            THEN Put(s, "last_state_group", s["state_group"]) ELSE s
  IN  IF s1["state_group"] # s1["last_state_group"]
      THEN Put(Put(s1, "selected_states",
                   IF s1["state_group"] = "All States" THEN default_states(df)
                   ELSE state_groups[s1["state_group"]]),
               "last_state_group", s1["state_group"])
      ELSE s1

\* the States multiselect and the two boxes below it, on the session_state s
\* the sync left
Widgets(s, df) ==
  IF ~Has(s, "selected_states") THEN [ss |-> s, status |-> "KeyError"]
  ELSE IF ~(s["selected_states"] \subseteq default_states(df))
  THEN [ss |-> s, status |-> "StreamlitAPIException"]
  ELSE [ss |-> selectbox(selectbox(s, "selected_group", BandOptions),
                         "selected_demo", DemoOptions),
        status |-> "ok"]

\* the sidebar: session_state after it and how far the script got
Sidebar(s0, clicked, df) ==
  Widgets(SyncStates(selectbox(IF clicked THEN ResetFilters(s0, df) ELSE s0,
                               "state_group", GroupOptions), df), df)

InBand(r, selected_group) ==
  /\ FLeq(FromNat(ranges[selected_group][1]), r.Minority_Percentage)
  /\ FLt(r.Minority_Percentage, FromNat(ranges[selected_group][2]))

InStates(r, selected_states) == r.State \in selected_states

\* filtered_df
FilterRows(df, selected_states, selected_group) ==
  LET byState == SelectSeq(df, LAMBDA r : InStates(r, selected_states))
  IN  IF selected_group # "All"
      THEN SelectSeq(byState, LAMBDA r : InBand(r, selected_group))
      ELSE byState

demo_col(selected_demo) ==
  IF selected_demo = "Total Minority" THEN "Minority Percentage"
  ELSE selected_demo \o " %"

RECURSIVE SumOf(_, _)
SumOf(rows, col) ==
  IF rows = <<>> THEN 0 ELSE rows[1][col] + SumOf(Tail(rows), col)

\* the rows the vote-share charts are built from
VoteRows(df, selected_states) ==
  SelectSeq(df, LAMBDA r : InStates(r, selected_states) /\ r.E_16_20_COMP_Total > 0)

VoteShares(dem, rep, tot) ==
  [E_16_20_COMP_Dem |-> dem, E_16_20_COMP_Rep |-> rep, E_16_20_COMP_Total |-> tot,
   Democratic_pct |-> Pct(dem, tot), Republican_pct |-> Pct(rep, tot)]

VoteSums(mine) ==
  VoteShares(SumOf(mine, "E_16_20_COMP_Dem"), SumOf(mine, "E_16_20_COMP_Rep"),
             SumOf(mine, "E_16_20_COMP_Total"))

\* groupby("State") sums, then the percentages of the sums
GroupVotes(rows) ==
  [s \in {rows[i].State : i \in 1..Len(rows)} |->
     VoteSums(SelectSeq(rows, LAMBDA r : r.State = s))]

CorrRows ==
  {"Minority Percentage", "Black %", "Hispanic %", "Asian %", "Native %",
   "Pacific %"}

CorrCols == {"Democratic %", "Republican %", "Partisan Margin"}

\* corr_df: one (Demographic, Vote Metric) entry per pair, each a Pearson
\* coefficient of two columns of the rows it is given; the coefficient is
\* kept as the rows it is computed from
CorrDf(rows) == [cells |-> CorrRows \X CorrCols, data |-> rows]

\* a chart or table the pass did not produce
Absent == [shown |-> FALSE]

RowFloor == 5

\* a guard that is off by one
TooFew_Inclusive(n) == n <= RowFloor

TooFew(n) == n < RowFloor

NoView ==
  [filtered_df |-> Absent, demo_col |-> Absent, districts |-> Absent,
   warning |-> Absent, vote_grouped |-> Absent, corr_df |-> Absent]

View(df, s, filtered_df) ==
  [filtered_df |-> filtered_df,
   demo_col |-> demo_col(s["selected_demo"]),
   districts |-> Len(filtered_df),
   warning |-> TooFew(Len(filtered_df)),
   vote_grouped |->
     IF TooFew(Len(filtered_df)) THEN Absent
     ELSE GroupVotes(VoteRows(df, s["selected_states"])),
   corr_df |-> IF TooFew(Len(filtered_df)) THEN Absent ELSE CorrDf(filtered_df)]

\* everything after the sidebar
Body(df, s) ==
  View(df, s, FilterRows(df, s["selected_states"], s["selected_group"]))

Rendered(sb, df) ==
  [ss |-> sb.ss,
   out |-> [status |-> sb.status,
            view |-> IF sb.status = "ok" THEN Body(df, sb.ss) ELSE NoView]]

\* a whole pass: the session_state it leaves and what it rendered.  An
\* uncaught exception ends the pass; session_state keeps what was written
\* before the raise.
Script(s0, clicked, df) == Rendered(Sidebar(s0, clicked, df), df)

----------------------------------------------------------------------------
(* The session: one action per user interaction, each followed by the      *)
(* whole pass it triggers.                                                  *)
(*   csv    the rows of the remote CSV                                      *)
(*   cache  the st.cache_data entries of load_data (none before the first   *)
(*          run, then the one data frame)                                   *)
(*   ss     st.session_state, a function from the keys present             *)
(*   out    what the last pass rendered, and how it ended                   *)
(*   op     the interaction that triggered the last pass, the value the    *)
(*          user gave it, and whether it left session_state different from *)
(*          what it found                                                   *)

NoSession == [k \in {} |-> None]

Started == cache # {}

\* load_data() through st.cache_data
Cached == CHOOSE d \in cache : TRUE

Step(name, arg, res) ==
  /\ ss' = res.ss
  /\ out' = res.out
  /\ op' = [name |-> name, arg |-> arg, changed |-> res.ss # ss]

Load(df) ==
  /\ cache' = {df}
  /\ Step("first_run", None, Script(ss, FALSE, df))

\* the browser opens the page
FirstRun ==
  /\ ~Started
  /\ Load(load_data(csv))
  /\ UNCHANGED csv

\* the button and the State Group box come before anything that can raise
Reset ==
  /\ Started
  /\ Step("reset", None, Script(ss, TRUE, Cached))
  /\ UNCHANGED <<csv, cache>>

SetStateGroup(g) ==
  /\ Started
  /\ Step("set_state_group", g, Script(Put(ss, "state_group", g), FALSE, Cached))
  /\ UNCHANGED <<csv, cache>>

\* the three widgets below are on the page only after a pass that got there
SetSelectedStates(S) ==
  /\ Started /\ out.status = "ok"
  /\ Step("set_selected_states", S,
          Script(Put(ss, "selected_states", S), FALSE, Cached))
  /\ UNCHANGED <<csv, cache>>

SetMinorityBand(b) ==
  /\ Started /\ out.status = "ok"
  /\ Step("set_minority_band", b,
          Script(Put(ss, "selected_group", b), FALSE, Cached))
  /\ UNCHANGED <<csv, cache>>

SetDemographicFocus(d) ==
  /\ Started /\ out.status = "ok"
  /\ Step("set_demographic_focus", d,
          Script(Put(ss, "selected_demo", d), FALSE, Cached))
  /\ UNCHANGED <<csv, cache>>

EditGroup == \E g \in Range(GroupOptions) : SetStateGroup(g)
EditStates ==
  Started /\ \E S \in SUBSET default_states(Cached) : SetSelectedStates(S)
EditBand == \E b \in Range(BandOptions) : SetMinorityBand(b)
EditDemo == \E d \in Range(DemoOptions) : SetDemographicFocus(d)

----------------------------------------------------------------------------
(* Datasets.                                                                *)

District(st, cd, hisp, black, pop, dem, rep, tot) ==
  [State |-> st, CD_Num |-> cd,
   E_16_20_COMP_Dem |-> dem, E_16_20_COMP_Rep |-> rep, E_16_20_COMP_Total |-> tot,
   T_20_CENS_Hispanic |-> hisp, T_20_CENS_Black |-> black, T_20_CENS_Asian |-> 0,
   T_20_CENS_Native |-> 0, T_20_CENS_Pacific |-> 0, T_20_CENS_Total |-> pop]

StateNames ==
  <<"Alabama", "Arkansas", "Florida", "Georgia", "Kentucky", "Louisiana",
    "Mississippi", "North Carolina", "South Carolina", "Tennessee", "Texas",
    "Virginia", "West Virginia">>

InitCommon ==
  /\ cache = {}
  /\ ss = NoSession
  /\ out = [status |-> "not_run", view |-> NoView]
  /\ op = [name |-> "none", arg |-> None, changed |-> FALSE]

\* --- sessions: a few states, MaxDistricts districts each
MaxDistricts == 2
MaxPop == 20

SessionStateSets ==
  {{"Georgia", "North Carolina", "Virginia"}, {"Louisiana", "Virginia"},
   {"Georgia", "Texas"}}

SessionRows(DS, n) ==
  LET names == SelectSeq(StateNames, LAMBDA s : s \in DS)
  IN  [j \in 1..(Len(names) * n) |->
         LET k == (j - 1) \div n + 1
             i == ((j - 1) % n) + 1
         IN  District(names[k], i, k % 2, (7 * (i + k)) % MaxPop, MaxPop,
                      i + k, 2 * k, i + 3 * k)]

SessionData ==
  {SessionRows(DS, n) : DS \in SessionStateSets, n \in 1..MaxDistricts}

Init == csv \in SessionData /\ InitCommon

Next == FirstRun \/ Reset \/ EditGroup \/ EditStates \/ EditBand \/ EditDemo

Spec == Init /\ [][Next]_vars

\* --- views: up to MaxRows districts of one profile in Georgia and one more
\* district, of any profile, in Virginia; the profiles sit on and beside the
\* band boundaries, and two have no population at all
MaxRows == 5

Marks == {0, 30, 35, 45, 50, 70, 75, 95, 100, 105}

Share(p) == (p * MaxPop) \div 100

Profiles == {<<Share(p), MaxPop>> : p \in Marks} \cup {<<0, 0>>, <<1, 0>>}

BaseProfiles == {<<Share(p), MaxPop>> : p \in {35, 75, 100}}

ViewRows(n, a, b) ==
  [i \in 1..n |->
     District("Georgia", i, a[1] \div 2, a[1] - a[1] \div 2, a[2],
              i - 1, 2 * (i - 1), 4 * (i - 1))]
    \o <<District("Virginia", 1, b[1] \div 2, b[1] - b[1] \div 2, b[2], 2, 9, 11)>>

ViewData ==
  {ViewRows(n, a, b) : n \in 0..MaxRows, a \in BaseProfiles, b \in Profiles}

InitView == csv \in ViewData /\ InitCommon

NextView == FirstRun \/ Reset \/ EditStates \/ EditBand

SpecView == InitView /\ [][NextView]_vars

\* --- loads: one district, every vote count up to MaxVotes
MaxVotes == 11

LoadData ==
  {<<District("Georgia", 1, 1, 2, 5, d, r, t)>> :
     d \in 0..MaxVotes, r \in 0..MaxVotes, t \in 0..MaxVotes}

InitLoad == csv \in LoadData /\ InitCommon

NextLoad == FirstRun \/ Reset

SpecLoad == InitLoad /\ [][NextLoad]_vars

----------------------------------------------------------------------------
(* Properties.                                                              *)

\* selected_states as the set holding it, empty while the key is absent
Sel(s) == IF Has(s, "selected_states") THEN {s["selected_states"]} ELSE {}

\* the membership a group label stands for
GroupMembers(g, df) ==
  IF g = "All States" THEN default_states(df) ELSE state_groups[g]

DefaultSession(df) ==
  [k \in {"state_group", "selected_states", "selected_group", "selected_demo",
          "last_state_group"} |->
     CASE k = "state_group" -> "All States"
       [] k = "selected_states" -> default_states(df)
       [] k = "selected_group" -> "All"
       [] k = "selected_demo" -> "Total Minority"
       [] k = "last_state_group" -> "All States"]

Setters ==
  {"set_state_group", "set_selected_states", "set_minority_band",
   "set_demographic_focus"}

\* C1, one step: an edit other than a reset changes selected_states only if
\* it is an edit of selected_states itself, which makes it the set the user
\* gave, or a state_group edit to a label other than the stored one, which
\* makes it that group's membership (every state of the dataset for "All
\* States"); a state_group edit to the stored label, a band edit and a focus
\* edit leave it as it was.
C1_Edit ==
  op'.name \in Setters =>
    /\ op'.name = "set_selected_states" => Sel(ss') = {op'.arg}
    /\ (op'.name = "set_state_group" /\ op'.arg # ss["last_state_group"])
         => Sel(ss') = {GroupMembers(op'.arg, Cached)}
    /\ (op'.name = "set_state_group" /\ op'.arg = ss["last_state_group"])
         => Sel(ss') = Sel(ss)
    /\ op'.name \in {"set_minority_band", "set_demographic_focus"}
         => Sel(ss') = Sel(ss)

\* C1: in every step of every session, selected_states changes only by an
\* explicit edit of it or by a state_group edit to a different label (then
\* to exactly that group's membership); a manual edit survives every other
\* edit until the label next changes.
C1_ReseedOnlyOnGroupChange == [][C1_Edit]_vars

\* C1 witness: a band edit has just run on a selection that is no longer
\* the membership of the stored group, and the selection is still there.
C1_Witness ==
  /\ op.name = "set_minority_band"
  /\ out.status = "ok"
  /\ ss["state_group"] = "Competitive States"
  /\ ss["selected_states"] # GroupMembers(ss["state_group"], Cached)
  /\ ss["selected_states"] # {}

\* C2 (as claimed): once the first pass has run, before any edit or reset,
\* the pass has completed and the filter state is fully defined and holds
\* the defaults.
C2_FirstPassHasDefaults ==
  op.name = "first_run" =>
    /\ out.status = "ok"
    /\ ss = DefaultSession(Cached)

\* C3: after a reset, from whatever state it was pressed in, every field
\* (state_group, selected_states, band, focus, last_state_group) holds its
\* default, the pass after it has completed without reseeding, and it shows
\* every row of the dataset.
C3_ResetRestoresDefaults ==
  op.name = "reset" =>
    /\ ss = DefaultSession(Cached)
    /\ out.status = "ok"
    /\ out.view.filtered_df = Cached

\* C3 witness: a reset has run in a session whose fields were not the
\* defaults (it changed session_state).
C3_Witness ==
  /\ op.name = "reset"
  /\ op.changed
  /\ ss = DefaultSession(Cached)

\* the closed interval [lo, hi]
InClosed(x, lo, hi) == FLeq(FromNat(lo), x) /\ FLeq(x, FromNat(hi))

\* the half-open interval [lo, hi)
InHalfOpen(x, lo, hi) == FLeq(FromNat(lo), x) /\ FLt(x, FromNat(hi))

Shown(r) == \E j \in 1..Len(out.view.filtered_df) : out.view.filtered_df[j] = r

\* C5 (as claimed): with the band "75%+", a row of a selected state is kept
\* iff its minority percentage lies in the closed interval [75, 100]: 75 is
\* kept, anything below 75 is not, and 100 is kept.
C5_TopBandClosed ==
  (out.status = "ok" /\ ss["selected_group"] = "75%+") =>
    \A i \in 1..Len(Cached) :
      Cached[i].State \in ss["selected_states"] =>
        (Shown(Cached[i]) <=> InClosed(Cached[i].Minority_Percentage, 75, 100))

\* the interval the specification gives each band
InClaimedBand(x, band) ==
  CASE band = "All" -> TRUE
    [] band = "Below 35%" -> InHalfOpen(x, 0, 35)
    [] band = "35-50%" -> InHalfOpen(x, 35, 50)
    [] band = "50-75%" -> InHalfOpen(x, 50, 75)
    [] band = "75%+" -> InClosed(x, 75, 100)

\* C6 (as claimed): the filtered rows are exactly the rows whose state is
\* selected and whose minority percentage is in the band's interval (any
\* row for "All"); a row with an undefined percentage matches no band but
\* "All"; the demographic focus plays no part.
C6_FilterExact ==
  out.status = "ok" =>
    /\ \A i \in 1..Len(Cached) :
         Shown(Cached[i]) <=>
           /\ Cached[i].State \in ss["selected_states"]
           /\ InClaimedBand(Cached[i].Minority_Percentage, ss["selected_group"])
    /\ \A j \in 1..Len(out.view.filtered_df) :
         \E i \in 1..Len(Cached) : Cached[i] = out.view.filtered_df[j]
    /\ \A i \in 1..Len(Cached) :
         (Cached[i].Minority_Percentage.cls # "fin" /\ ss["selected_group"] # "All")
           => ~Shown(Cached[i])

\* C7: a completed pass with fewer than 5 filtered rows (0 included) shows
\* the warning and no correlation table; with 5 or more it shows no warning
\* and a correlation table computed from exactly the filtered rows, one
\* entry for each of the 6 demographic categories against each of the 3
\* vote metrics.
C7_FloorGuardsCorrelation ==
  out.status = "ok" =>
    /\ Len(out.view.filtered_df) < 5 =>
         out.view.warning = TRUE /\ out.view.corr_df = Absent
    /\ Len(out.view.filtered_df) >= 5 =>
         /\ out.view.warning = FALSE
         /\ out.view.corr_df # Absent
         /\ out.view.corr_df.data = out.view.filtered_df
         /\ out.view.corr_df.cells =
              {"Minority Percentage", "Black %", "Hispanic %", "Asian %",
               "Native %", "Pacific %"}
                \X {"Democratic %", "Republican %", "Partisan Margin"}
         /\ Cardinality(out.view.corr_df.cells) = 18

\* C7 witness: a pass with exactly 5 filtered rows, fewer than the dataset
\* holds, has produced the table.
C7_Witness ==
  /\ out.status = "ok"
  /\ Len(out.view.filtered_df) = 5
  /\ Len(Cached) > 5
  /\ out.view.corr_df # Absent
  /\ out.view.warning = FALSE

\* C7 second case: a pass with 4 filtered rows has produced the warning.
C7_WitnessBelow ==
  /\ out.status = "ok"
  /\ Len(out.view.filtered_df) = 4
  /\ out.view.warning = TRUE

FilteredOf(s) == SelectSeq(out.view.filtered_df, LAMBDA r : r.State = s)

\* C8 (as claimed): the vote-composition table is an aggregate of the
\* filtered rows: for each state it holds the sums of the dem, rep and total
\* votes over that state's rows that match both selected_states and the
\* band, and the percentages of those sums.
C8_VotesOverFilteredView ==
  (out.status = "ok" /\ out.view.vote_grouped # Absent) =>
    \A s \in DOMAIN out.view.vote_grouped :
      /\ out.view.vote_grouped[s].E_16_20_COMP_Dem
           = SumOf(FilteredOf(s), "E_16_20_COMP_Dem")
      /\ out.view.vote_grouped[s].E_16_20_COMP_Rep
           = SumOf(FilteredOf(s), "E_16_20_COMP_Rep")
      /\ out.view.vote_grouped[s].E_16_20_COMP_Total
           = SumOf(FilteredOf(s), "E_16_20_COMP_Total")
      /\ out.view.vote_grouped[s].Democratic_pct
           = Pct(SumOf(FilteredOf(s), "E_16_20_COMP_Dem"),
                 SumOf(FilteredOf(s), "E_16_20_COMP_Total"))

\* C9 (as claimed): for a district with total >= dem + rep votes: if total
\* > 0 then dem% + rep% <= 100 and the margin rep% - dem% is in [-100, 100];
\* if total = 0 both percentages are the undefined value (NaN).
C9_SharesWithinHundred ==
  Started =>
    \A i \in 1..Len(Cached) :
      LET r == Cached[i] IN
      r.E_16_20_COMP_Total >= r.E_16_20_COMP_Dem + r.E_16_20_COMP_Rep =>
        /\ r.E_16_20_COMP_Total > 0 =>
             /\ FLeq(FAdd(r.Democratic_pct, r.Republican_pct), FromNat(100))
             /\ FLeq(r.Partisan_Margin, FromNat(100))
             /\ FLeq(FNeg(FromNat(100)), r.Partisan_Margin)
        /\ r.E_16_20_COMP_Total = 0 =>
             r.Democratic_pct.cls = "nan" /\ r.Republican_pct.cls = "nan"

\* 100 + 2^-45: 100 and two units in its last place
HundredAndSlack == FAdd(FromNat(100), RoundTo(1, <<1>>, 0 - 45))

\* C9 (amended): for a district with total >= dem + rep votes: if total > 0
\* then each of dem% and rep% is in [0, 100], the margin rep% - dem% is in
\* [-100, 100], and the binary64 sum dem% + rep% is at most 100 + 2^-45 (the
\* roundings of the two divisions, the two products and the sum can lift it
\* past 100 by no more than two units in the last place); if total = 0 both
\* percentages are NaN.
C9_SharesWithinRounding ==
  Started =>
    \A i \in 1..Len(Cached) :
      Cached[i].E_16_20_COMP_Total
          >= Cached[i].E_16_20_COMP_Dem + Cached[i].E_16_20_COMP_Rep =>
        /\ Cached[i].E_16_20_COMP_Total > 0 =>
             /\ FLeq(FAdd(Cached[i].Democratic_pct, Cached[i].Republican_pct),
                     HundredAndSlack)
             /\ InClosed(Cached[i].Democratic_pct, 0, 100)
             /\ InClosed(Cached[i].Republican_pct, 0, 100)
             /\ FLeq(Cached[i].Partisan_Margin, FromNat(100))
             /\ FLeq(FNeg(FromNat(100)), Cached[i].Partisan_Margin)
        /\ Cached[i].E_16_20_COMP_Total = 0 =>
             /\ Cached[i].Democratic_pct = NaN
             /\ Cached[i].Republican_pct = NaN

\* C9 witness: the data frame is loaded and the shares of its district, whose
\* votes are within the total, add up to more than 100.
C9_Witness ==
  /\ Started
  /\ Cached[1].E_16_20_COMP_Total > 0
  /\ Cached[1].E_16_20_COMP_Total
       >= Cached[1].E_16_20_COMP_Dem + Cached[1].E_16_20_COMP_Rep
  /\ FLt(FromNat(100), FAdd(Cached[1].Democratic_pct, Cached[1].Republican_pct))

\* C9 second case: a loaded district without votes has NaN shares.
C9_WitnessNoVotes ==
  /\ Started
  /\ Cached[1].E_16_20_COMP_Total = 0
  /\ Cached[1].E_16_20_COMP_Dem = 0
  /\ Cached[1].Democratic_pct = NaN

\* C10 (as claimed): selected_states, whenever set, holds only states that
\* occur in the dataset.
C10_SelectedWithinDataset ==
  (Started /\ Has(ss, "selected_states")) =>
    ss["selected_states"] \subseteq default_states(Cached)

====
